---- MODULE Spec2Model ----
(***************************************************************************)
(* eval-report.ipynb: the evaluation notebook of lk-demo-experiment, run   *)
(* top to bottom.  Every code cell is one step (a loop cell is one step    *)
(* per iteration); an exception raised by a cell stops the run there.      *)
(*                                                                         *)
(* Strings are sequences of one-character strings, so that str.split, the  *)
(* glob prefix match and the sort order of group keys are computed, not    *)
(* assumed.  p-values are integers in units of 1/PScale, so that 0.05 and  *)
(* 0.05/6 are both exact.  Metric values and test statistics, which the    *)
(* libraries compute from the data, are kept as uninterpreted terms that   *)
(* record what they were computed from.  The plotting cells change nothing  *)
(* that a later cell reads and are left out.                               *)
(***************************************************************************)
EXTENDS Integers, Sequences, FiniteSets, TLC

\* ------------------------------------------------------------------ bounds

\* the largest number of algorithm directories in the output root
MaxAlgs == 5
\* the users are 1..MaxUser
MaxUser == 2

\* ----------------------------------------------------------------- strings

\* the characters used, in code-point order ('-' < upper case < lower case)
CharOrder == <<"-", "A", "B", "C", "D", "E", "F", "G", "k", "m">>

Ord(c) == CHOOSE i \in 1..Len(CharOrder) : CharOrder[i] = c

\* s < t, the order of Python strings (sorted group keys)
RECURSIVE StrLess(_, _)
StrLess(s, t) ==
    IF t = <<>> THEN FALSE
    ELSE IF s = <<>> THEN TRUE
    ELSE IF Head(s) = Head(t) THEN StrLess(Tail(s), Tail(t))
    ELSE Ord(Head(s)) < Ord(Head(t))

\* s.startswith(prefix)
StartsWith(s, prefix) ==
    /\ Len(prefix) <= Len(s)
    /\ SubSeq(s, 1, Len(prefix)) = prefix

\* str.split(sep), scanning left to right; cur is the segment being read
RECURSIVE SplitFrom(_, _, _)
SplitFrom(s, sep, cur) ==
    IF s = <<>> THEN <<cur>>
    ELSE IF Head(s) = sep THEN <<cur>> \o SplitFrom(Tail(s), sep, <<>>)
    ELSE SplitFrom(Tail(s), sep, Append(cur, Head(s)))

Split(s, sep) == SplitFrom(s, sep, <<>>)

\* the integers of S in increasing order
RECURSIVE SortedInts(_)
SortedInts(S) ==
    IF S = {} THEN <<>>
    ELSE LET m == CHOOSE x \in S : \A y \in S : x <= y
         IN  <<m>> \o SortedInts(S \ {m})

\* the strings of S in increasing order
RECURSIVE SortedStrs(_)
SortedStrs(S) ==
    IF S = {} THEN <<>>
    ELSE LET m == CHOOSE x \in S : \A y \in S \ {x} : StrLess(x, y)
         IN  <<m>> \o SortedStrs(S \ {m})

Range(s) == {s[i] : i \in 1..Len(s)}

\* all the elements of a sequence of sequences, in order (pd.concat)
RECURSIVE Concat(_)
Concat(frames) ==
    IF frames = <<>> THEN <<>> ELSE Head(frames) \o Concat(Tail(frames))

\* ------------------------------------------------------------------ inputs

\* the dataset identifiers tried: "m" and "m-k" (one that holds the delimiter)
Datasets == {<<"m">>, <<"m", "-", "k">>}

\* the name of the i-th algorithm: "A", "B", ...
AlgName(i) == <<CharOrder[i + 1]>>

\* the output directory <dataset>-<algorithm>
DirName(ds, alg) == ds \o <<"-">> \o alg

\* the users 1..n as a file's rows, one row (group of rows) per user
UsersUpTo(n) == [u \in 1..n |-> u]

\* the recs-* files of an ordinary directory: one file, every user
FullRecs == <<UsersUpTo(MaxUser)>>

\* a user the split directory never holds
Stranger == MaxUser + 1

\* what one directory may hold instead: no recs-* file; one file that lacks
\* the last user; two files, the last user's first; one file with the
\* stranger in place of the last user
OddRecs ==
    {<<>>, <<UsersUpTo(MaxUser - 1)>>, <<<<MaxUser>>, UsersUpTo(MaxUser - 1)>>,
     <<Append(UsersUpTo(MaxUser - 1), Stranger)>>}

\* which directories hold a pred-* file
PredModes == {"all", "none", "not_first"}

\* the output root: n directories of dataset owner, of which directory odd
\* (if any) holds oddRecs; listed in name order or in reverse
Listing(owner, n, odd, oddRecs, predMode, reversed) ==
    LET entry(i) ==
            [name |-> DirName(owner, AlgName(i)),
             recs |-> IF i = odd THEN oddRecs ELSE FullRecs,
             pred |-> IF predMode = "all" \/ (predMode = "not_first" /\ i > 1)
                      THEN <<UsersUpTo(MaxUser)>> ELSE <<>>]
    IN  [i \in 1..n |-> entry(IF reversed THEN n + 1 - i ELSE i)]

\* the output roots tried: n ordinary directories, with pred-* files in all,
\* in none or in all but the first; the same listed in reverse; and n
\* directories of which one is odd
OutputRoots ==
    {Listing(owner, n, 0, FullRecs, predMode, FALSE) :
        owner \in Datasets, n \in 0..MaxAlgs, predMode \in PredModes}
    \cup
    {Listing(owner, n, 0, FullRecs, "all", TRUE) :
        owner \in Datasets, n \in 2..MaxAlgs}
    \cup
    UNION {{Listing(owner, n, odd, oddRecs, "all", FALSE) :
                odd \in 1..n, oddRecs \in OddRecs} :
            owner \in Datasets, n \in 1..MaxAlgs}

\* the test-*.csv files of the split directory: none, or one file with the
\* ground truth of users 1..t
SplitDirs == {<<>>} \cup {<<UsersUpTo(t)>> : t \in 1..MaxUser}

\* ------------------------------------------------------------------- state

VARIABLES
    pc,          \* the cell (or loop) about to run
    error,       \* the exception that stopped the run, "" while it runs
    dataset,     \* the parameter cell's dataset identifier
    output_root, \* the directories under output/, in listing order
    split_dir,   \* the test-* files under data-split/<dataset>
    dirs,        \* the directories the glob matched
    work,        \* the (fld, file) iterations a loading loop has left
    fld,         \* the loop variable fld: a directory name
    rec,         \* the frame read last by the recs loop, tagged
    recs,        \* the list of frames, then the concatenated table
    pred,        \* the frame read last by the preds loop, tagged
    preds,       \* the list of frames, then the concatenated table
    test,        \* the list of frames, then the ground-truth table
    results,     \* the MetricResult table
    section,     \* the metric section being run: an index of Metrics
    alg_vals,    \* the per-algorithm score vectors
    alg_names,   \* the per-algorithm names
    stat,        \* the Friedman statistic (what it was computed from)
    p,           \* <<the Friedman p-value>>, <<>> before the first test
    n_compare,   \* the list of index pairs to compare
    i,           \* the position of the post-hoc loop in n_compare
    result,      \* <<the Series wilcox_bonf returned last>>
    out,         \* the output area of the cell run last
    user_rmse    \* the per-(algorithm, user) RMSE table

vars ==
    <<pc, error, dataset, output_root, split_dir, dirs, work, fld, rec, recs,
      pred, preds, test, results, section, alg_vals, alg_names, stat, p,
      n_compare, i, result, out, user_rmse>>

inputs == <<dataset, output_root, split_dir>>
loaded == <<dirs, recs, preds, test>>
loopvars == <<work, fld, rec, pred>>
stats == <<section, alg_vals, alg_names, stat, p, n_compare, i, result>>

NoOutput == [cell |-> "", metric |-> "", lines |-> <<>>]

Init ==
    /\ pc = "dirs"
    /\ error = ""
    /\ dataset \in Datasets
    /\ output_root \in OutputRoots
    /\ split_dir \in SplitDirs
    /\ dirs = <<>>
    /\ work = <<>>
    /\ fld = <<>>
    /\ rec = <<>>
    /\ recs = <<>>
    /\ pred = <<>>
    /\ preds = <<>>
    /\ test = <<>>
    /\ results = <<>>
    /\ section = 1
    /\ alg_vals = <<>>
    /\ alg_names = <<>>
    /\ stat = <<>>
    /\ p = <<>>
    /\ n_compare = <<>>
    /\ i = 1
    /\ result = <<>>
    /\ out = NoOutput
    /\ user_rmse = <<>>

Running(cell) == pc = cell /\ error = ""

\* ------------------------------------------------------------ Input Loader

\* Path.glob(f'{dataset}-*'): the names that start with <dataset>-
GlobMatches(name, ds) == StartsWith(name, ds \o <<"-">>)

\* dirs = [fld for fld in output_root.glob(f'{dataset}-*')]
Dirs ==
    /\ Running("dirs")
    /\ dirs' = SelectSeq(output_root, LAMBDA d : GlobMatches(d.name, dataset))
    /\ pc' = "recs"
    /\ UNCHANGED <<error, inputs, loopvars, recs, preds, test, results, stats,
                   out, user_rmse>>

\* the iterations of "for fld in dirs: for file in fld.glob(...)": every file
\* of every directory, a directory without files giving none
RECURSIVE Iterations(_, _)
Iterations(ds, kind) ==
    IF ds = <<>> THEN <<>>
    ELSE LET d == Head(ds)
             files == d[kind]
         IN  [j \in 1..Len(files) |-> [fld |-> d.name, file |-> files[j]]]
             \o Iterations(Tail(ds), kind)

\* rec["dataset"] = fld.name.split("-")[0]
DatasetTag(name) == Split(name, "-")[1]

\* rec["algorithm"] = fld.name.split("-")[1]
AlgorithmTag(name) == Split(name, "-")[2]

\* pd.read_csv(file) with the two columns added
Tagged(file, name) ==
    [j \in 1..Len(file) |->
        [dataset |-> DatasetTag(name), algorithm |-> AlgorithmTag(name),
         user |-> file[j]]]

\* recs = []
RecsStart ==
    /\ Running("recs")
    /\ recs' = <<>>
    /\ work' = Iterations(dirs, "recs")
    /\ pc' = "recs_loop"
    /\ UNCHANGED <<error, inputs, dirs, fld, rec, pred, preds, test, results,
                   stats, out, user_rmse>>

\* one iteration of the recs loop
RecsRead ==
    /\ Running("recs_loop")
    /\ work # <<>>
    /\ fld' = Head(work).fld
    /\ rec' = Tagged(Head(work).file, Head(work).fld)
    /\ recs' = Append(recs, rec')
    /\ work' = Tail(work)
    /\ UNCHANGED <<pc, error, inputs, dirs, pred, preds, test, results, stats,
                   out, user_rmse>>

\* (variant of ConcatFails: an empty list concatenates to an empty table)
ConcatNeverFails(frames) == FALSE

\* pd.concat(frames): raises ValueError on an empty list
ConcatFails(frames) == frames = <<>>

\* recs = pd.concat(recs, ignore_index=True); recs.astype(...)
RecsConcat ==
    /\ Running("recs_loop")
    /\ work = <<>>
    /\ IF ConcatFails(recs)
       THEN /\ error' = "ValueError"
            /\ UNCHANGED <<pc, recs>>
       ELSE /\ recs' = Concat(recs)
            /\ pc' = "preds"
            /\ UNCHANGED error
    /\ UNCHANGED <<inputs, dirs, loopvars, preds, test, results, stats, out,
                   user_rmse>>

\* preds = []
PredsStart ==
    /\ Running("preds")
    /\ preds' = <<>>
    /\ work' = Iterations(dirs, "pred")
    /\ pc' = "preds_loop"
    /\ UNCHANGED <<error, inputs, dirs, fld, rec, pred, recs, test, results,
                   stats, out, user_rmse>>

\* one iteration of the preds loop
PredsRead ==
    /\ Running("preds_loop")
    /\ work # <<>>
    /\ fld' = Head(work).fld
    /\ pred' = Tagged(Head(work).file, Head(work).fld)
    /\ preds' = Append(preds, pred')
    /\ work' = Tail(work)
    /\ UNCHANGED <<pc, error, inputs, dirs, rec, recs, test, results, stats,
                   out, user_rmse>>

\* preds = pd.concat(preds, ignore_index=True)
PredsConcat ==
    /\ Running("preds_loop")
    /\ work = <<>>
    /\ IF ConcatFails(preds)
       THEN /\ error' = "ValueError"
            /\ UNCHANGED <<pc, preds>>
       ELSE /\ preds' = Concat(preds)
            /\ pc' = "test"
            /\ UNCHANGED error
    /\ UNCHANGED <<inputs, dirs, loopvars, recs, test, results, stats, out,
                   user_rmse>>

\* test = [read_csv(file) for file in split_dir.glob("test-*.csv")];
\* test = pd.concat(test, ignore_index=True)
TestLoad ==
    /\ Running("test")
    /\ LET frames == [j \in 1..Len(split_dir) |->
                        [n \in 1..Len(split_dir[j]) |-> [user |-> split_dir[j][n]]]]
       IN  IF ConcatFails(frames)
           THEN /\ error' = "ValueError"
                /\ test' = frames
                /\ UNCHANGED pc
           ELSE /\ test' = Concat(frames)
                /\ pc' = "compute"
                /\ UNCHANGED error
    /\ UNCHANGED <<inputs, dirs, loopvars, recs, preds, results, stats, out,
                   user_rmse>>

\* -------------------------------------------------------- Metric Evaluator

\* rla.add_metric(topn.precision), (topn.recip_rank), (topn.ndcg): the columns
MetricColumns == <<"precision", "recip_rank", "ndcg">>

\* a missing value, and the 0 that fillna(0) puts in its place
NaN == [kind |-> "NaN"]
Zero == [kind |-> "0.0"]

\* the value a metric function computes from one recommendation list
MetricValue(metric, ds, alg, user) ==
    [kind |-> "value", metric |-> metric, dataset |-> ds, algorithm |-> alg,
     user |-> user]

\* RecListAnalysis.compute(recs, truth, include_missing): one row per
\* recommendation list, a list being the rows of recs that agree on every
\* column but item, rank and score, i.e. on (dataset, algorithm, user); with
\* include_missing each (dataset, algorithm) group is outer-joined with the
\* users of truth, which adds a row of missing metrics for every user of truth
\* without a list and orders the group by user.  Groups come in key order.
compute(recs_, truth, include_missing) ==
    LET truthUsers == {r.user : r \in Range(truth)}
        group(ds, alg) ==
            LET listUsers ==
                    {r.user : r \in {x \in Range(recs_) :
                                        x.dataset = ds /\ x.algorithm = alg}}
                users == SortedInts(listUsers \cup
                            (IF include_missing THEN truthUsers ELSE {}))
                value(m, u) ==
                    IF u \in listUsers THEN MetricValue(m, ds, alg, u) ELSE NaN
                row(u) ==
                    [dataset |-> ds, algorithm |-> alg, user |-> u,
                     precision |-> value("precision", u),
                     recip_rank |-> value("recip_rank", u),
                     ndcg |-> value("ndcg", u),
                     nrecs |-> Cardinality({n \in 1..Len(recs_) :
                                                /\ recs_[n].dataset = ds
                                                /\ recs_[n].algorithm = alg
                                                /\ recs_[n].user = u}),
                     ntruth |-> Cardinality({n \in 1..Len(truth) :
                                                truth[n].user = u})]
            IN  [n \in 1..Len(users) |-> row(users[n])]
        algsOf(ds) ==
            SortedStrs({r.algorithm : r \in {x \in Range(recs_) : x.dataset = ds}})
        dataset_(ds) ==
            Concat([n \in 1..Len(algsOf(ds)) |-> group(ds, algsOf(ds)[n])])
        dss == SortedStrs({r.dataset : r \in Range(recs_)})
    IN  Concat([n \in 1..Len(dss) |-> dataset_(dss[n])])

\* DataFrame.fillna(0)
fillna(table) ==
    LET fill(v) == IF v = NaN THEN Zero ELSE v
    IN  [n \in 1..Len(table) |->
            [table[n] EXCEPT !.precision = fill(@), !.recip_rank = fill(@),
                             !.ndcg = fill(@)]]

\* results = rla.compute(recs, test, include_missing=True)
ComputeResults(recs_, truth) == compute(recs_, truth, TRUE)

\* (variant of FilledResults: the fillna(0) line left out)
NotFilledResults(table) == table

\* results = results.fillna(0)
FilledResults(table) == fillna(table)

\* the compute cell
Compute ==
    /\ Running("compute")
    /\ results' = FilledResults(ComputeResults(recs, test))
    /\ pc' = "friedman"
    /\ UNCHANGED <<error, inputs, loaded, loopvars, stats, out, user_rmse>>

\* ---------------------------------------------------- Significance Tester

\* the metric sections of the notebook, in order
Metrics == <<"precision", "ndcg", "recip_rank">>

\* p-values are counted in units of 1/PScale
PScale == 6 * 10000

\* 0.05, the significance threshold
Alpha == (5 * PScale) \div 100

\* the p-values the two tests may return: around the threshold each is
\* compared with
FriedmanPValues == {Alpha - 1, Alpha}
WilcoxonPValues == {(Alpha \div 6) - 1, Alpha \div 6, (Alpha \div 6) + 1}

\* '%.3f' % x: x rounded to thousandths
Fmt3(x) == (x * 1000 + PScale \div 2) \div PScale

\* the keys of results.reset_index().groupby("algorithm"), in key order
GroupKeys(table) == SortedStrs({r.algorithm : r \in Range(table)})

\* data[column].to_numpy() of one group: the group's rows in table order
GroupColumn(table, alg, column) ==
    LET rows == SelectSeq(table, LAMBDA r : r.algorithm = alg)
    IN  [n \in 1..Len(rows) |-> rows[n][column]]

\* alg_names after the loop of the section's Friedman cell
SectionNames(table, sec) == GroupKeys(table)

\* (variant of SectionVals: every section reads the first section's column)
StaleSectionVals(table, sec) ==
    LET keys == GroupKeys(table)
    IN  [n \in 1..Len(keys) |-> GroupColumn(table, keys[n], Metrics[1])]

\* alg_vals after the loop of the section's Friedman cell
SectionVals(table, sec) ==
    LET keys == GroupKeys(table)
    IN  [n \in 1..Len(keys) |-> GroupColumn(table, keys[n], Metrics[sec])]

\* the number of positional arguments alg_vals[0], ..., alg_vals[3]
FriedmanArgs == 4

\* friedmanchisquare raises ValueError unless its samples have one length
UnequalN(samples) ==
    \E a, b \in 1..Len(samples) : Len(samples[a]) # Len(samples[b])

\* a section's Friedman cell
Friedman ==
    /\ Running("friedman")
    /\ alg_names' = SectionNames(results, section)
    /\ alg_vals' = SectionVals(results, section)
    /\ LET samples == SubSeq(alg_vals', 1, FriedmanArgs)
           nothing == [cell |-> "friedman", metric |-> Metrics[section],
                       lines |-> <<>>]
       IN  IF Len(alg_vals') < FriedmanArgs
           THEN /\ error' = "IndexError"
                /\ out' = nothing
                /\ UNCHANGED <<pc, stat, p>>
           ELSE IF UnequalN(samples)
           THEN /\ error' = "ValueError"
                /\ out' = nothing
                /\ UNCHANGED <<pc, stat, p>>
           ELSE /\ stat' = [test |-> "friedmanchisquare", samples |-> samples]
                /\ \E pv \in FriedmanPValues :
                       /\ p' = <<pv>>
                       /\ out' = [nothing EXCEPT !.lines =
                                    <<[Statistics |-> stat', p |-> Fmt3(pv)]>>]
                /\ pc' = "posthoc"
                /\ UNCHANGED error
    /\ UNCHANGED <<inputs, loaded, loopvars, results, section, n_compare, i,
                   result, user_rmse>>

\* list(combinations(list(range(n)), 2)): the pairs a < b of 0..n-1, in
\* lexicographic order
RECURSIVE combinations2(_, _)
combinations2(n, a) ==
    IF a >= n - 1 THEN <<>>
    ELSE [j \in 1..(n - 1 - a) |-> <<a, a + j>>] \o combinations2(n, a + 1)

\* the number of algorithms the post-hoc cell pairs up: range(4)
Compared == 4

\* (variant of Decision: "if p >= new_alpha")
StrictDecision(pv, m) ==
    IF pv * m >= Alpha THEN "Metric is the same (fail to reject H0)"
    ELSE "Metric is different (reject H0)"

\* new_alpha = alpha/len(n_compare); "if p > new_alpha": same, else different
\* (the quotient is exact here: p > alpha/m iff p*m > alpha)
Decision(pv, m) ==
    IF pv * m > Alpha THEN "Metric is the same (fail to reject H0)"
    ELSE "Metric is different (reject H0)"

\* wilcox_bonf(data1, data2, alg_pair) with wilcoxon returning p-value pv
wilcox_bonf(data1, data2, alg_pair, pv) ==
    [Pair |-> alg_pair,
     Statistics |-> [test |-> "wilcoxon", x |-> data1, y |-> data2],
     p_value |-> pv,
     Decision |-> Decision(pv, Len(n_compare))]

\* the post-hoc cell up to its loop: n_compare = ...; def wilcox_bonf
PostHocStart ==
    /\ Running("posthoc")
    /\ n_compare' = combinations2(Compared, 0)
    /\ i' = 1
    /\ out' = [cell |-> "posthoc", metric |-> Metrics[section], lines |-> <<>>]
    /\ pc' = "posthoc_loop"
    /\ UNCHANGED <<error, inputs, loaded, loopvars, results, section, alg_vals,
                   alg_names, stat, p, result, user_rmse>>

\* the arguments of the call of wilcox_bonf for idx
PairData(vals, idx) == <<vals[idx[1] + 1], vals[idx[2] + 1]>>
PairLabel(names, idx) == <<names[idx[1] + 1], names[idx[2] + 1]>>

\* one iteration of "for idx in n_compare": the call and the print
PostHocCompare ==
    /\ Running("posthoc_loop")
    /\ i <= Len(n_compare)
    /\ \E pv \in WilcoxonPValues :
        LET idx == n_compare[i]
            data == PairData(alg_vals, idx)
            r == wilcox_bonf(data[1], data[2], PairLabel(alg_names, idx), pv)
        IN  /\ result' = <<r>>
            /\ out' = [out EXCEPT !.lines =
                        Append(@, [Pair |-> r.Pair, Statistics |-> r.Statistics,
                                   p |-> Fmt3(r.p_value), Decision |-> r.Decision])]
    /\ i' = i + 1
    /\ IF i < Len(n_compare)
       THEN UNCHANGED <<pc, section>>
       ELSE IF section < Len(Metrics)
       THEN pc' = "friedman" /\ section' = section + 1
       ELSE pc' = "rmse" /\ UNCHANGED section
    /\ UNCHANGED <<error, inputs, loaded, loopvars, results, alg_vals,
                   alg_names, stat, p, n_compare, user_rmse>>

\* ----------------------------------------------------------------- Reporter

\* preds.groupby(['algorithm', 'user']).apply(rmse).reset_index(name='RMSE')
UserRmse(table) ==
    LET algs == SortedStrs({r.algorithm : r \in Range(table)})
        rows(alg) ==
            LET users == SortedInts({r.user : r \in {x \in Range(table) :
                                                       x.algorithm = alg}})
            IN  [n \in 1..Len(users) |->
                    [algorithm |-> alg, user |-> users[n],
                     RMSE |-> [kind |-> "rmse", algorithm |-> alg,
                               user |-> users[n]]]]
    IN  Concat([n \in 1..Len(algs) |-> rows(algs[n])])

\* the RMSE cell
Rmse ==
    /\ Running("rmse")
    /\ user_rmse' = UserRmse(preds)
    /\ pc' = "done"
    /\ UNCHANGED <<error, inputs, loaded, loopvars, results, stats, out>>

Next ==
    \/ Dirs
    \/ RecsStart
    \/ RecsRead
    \/ RecsConcat
    \/ PredsStart
    \/ PredsRead
    \/ PredsConcat
    \/ TestLoad
    \/ Compute
    \/ Friedman
    \/ PostHocStart
    \/ PostHocCompare
    \/ Rmse

Spec == Init /\ [][Next]_vars

\* ------------------------------------------------------------- properties

Same == "Metric is the same (fail to reject H0)"
Different == "Metric is different (reject H0)"

\* the compute cell has run
Computed == pc \in {"friedman", "posthoc", "posthoc_loop", "rmse", "done"}

\* the algorithms present in the results
K == Len(GroupKeys(results))

\* n choose 2
Choose2(n) == (n * (n - 1)) \div 2

\* the output area holds what a section's Friedman cell printed (or nothing,
\* when the cell raised)
AfterFriedman == out.cell = "friedman"

\* the output area holds what a section's post-hoc cell has printed so far
InPostHoc == out.cell = "posthoc"

\* a section's post-hoc loop has run to its end
PostHocDone == InPostHoc /\ pc # "posthoc_loop"

\* C1: in every metric section, pairwise results are printed (Wilcoxon tests
\* are run) only after a Friedman result with p < 0.05; with p >= 0.05 the
\* section's post-hoc cell prints nothing.
C1_PostHocOnlyWhenSignificant ==
    (InPostHoc /\ out.lines # <<>>) => p[1] < Alpha

\* C2 as stated: with m comparisons the decision is "different" if and only
\* if p < 0.05/m; p = 0.05/m gives "same".
C2_DifferentIffBelow ==
    result # <<>> =>
        (result[1].Decision = Different
            <=> result[1].p_value * Len(n_compare) < Alpha)

\* C2 as amended: with m comparisons the decision is "different" if and only
\* if p <= 0.05/m, and "same" otherwise; p = 0.05/m gives "different".
C2_DifferentIffNotAbove ==
    result # <<>> =>
        /\ result[1].Decision \in {Same, Different}
        /\ result[1].Decision = Different
            <=> result[1].p_value * Len(n_compare) <= Alpha

\* a pairwise test returned exactly p = 0.05/m and was decided "different"
C2_AtThreshold ==
    /\ result # <<>>
    /\ result[1].p_value * Len(n_compare) = Alpha
    /\ result[1].Decision = Different

\* C3: once a section's post-hoc loop has ended, its output is one result for
\* every pair i < j of the K algorithms present, in lexicographic order of
\* (i, j), and the Bonferroni divisor is K choose 2.
C3_EveryPairOfEveryAlgorithm ==
    PostHocDone =>
        /\ Len(n_compare) = Choose2(K)
        /\ [n \in 1..Len(out.lines) |-> out.lines[n].Pair]
            = [n \in 1..Choose2(K) |->
                    PairLabel(alg_names, combinations2(K, 0)[n])]

\* C4: with K >= 3 algorithms present, a section's Friedman cell does not fail
\* on indexing its vectors, and the test it runs is on exactly the K vectors,
\* one per algorithm.
C4_FriedmanOnEveryAlgorithm ==
    (AfterFriedman /\ K >= 3) =>
        /\ error # "IndexError"
        /\ error = "" => stat.samples = alg_vals

\* C5: with fewer than 3 algorithms present, the Friedman cell stops the run
\* with the insufficient-groups error of the test itself (not the error of a
\* load or of a computation), and prints no statistic.
C5_InsufficientGroupsError ==
    (AfterFriedman /\ K < 3) =>
        /\ error = "InsufficientGroupsError"
        /\ out.lines = <<>>

\* the rows of the results for algorithm a and user u
RowsOf(a, u) ==
    {n \in 1..Len(results) : results[n].algorithm = a /\ results[n].user = u}

\* algorithm a has a recommendation list for user u
HasList(a, u) == \E r \in Range(recs) : r.algorithm = a /\ r.user = u

\* C6: in the results of the compute cell, every algorithm of the
\* recommendations and every user of the ground truth have exactly one row,
\* whose metrics are never missing and are all 0.0 when the algorithm has no
\* list for the user.
C6_OneRowPerAlgorithmAndUser ==
    Computed =>
        \A a \in {r.algorithm : r \in Range(recs)} :
            \A u \in {r.user : r \in Range(test)} :
                /\ Cardinality(RowsOf(a, u)) = 1
                /\ \A n \in RowsOf(a, u) :
                    \A m \in Range(MetricColumns) :
                        /\ results[n][m] # NaN
                        /\ ~HasList(a, u) => results[n][m] = Zero

\* the results hold a row for a user for whom the algorithm made no list
C6_MissingList ==
    /\ Computed
    /\ \E a \in {r.algorithm : r \in Range(recs)} :
        \E u \in {r.user : r \in Range(test)} :
            ~HasList(a, u) /\ RowsOf(a, u) # {}

\* the vectors handed to the tests: alg_vals[0], ..., alg_vals[3]
Handed == 1..FriedmanArgs

\* C7: the vectors of a section on which the Friedman test and the Wilcoxon
\* tests have run all have one length, and position n of every vector is the
\* score of one and the same user.
C7_VectorsAligned ==
    ((AfterFriedman \/ InPostHoc) /\ error = "") =>
        \A a, b \in Handed :
            /\ Len(alg_vals[a]) = Len(alg_vals[b])
            /\ GroupColumn(results, alg_names[a], "user")
                = GroupColumn(results, alg_names[b], "user")

\* the concatenation of a loading loop has been attempted
RecsConcatTried ==
    (pc = "recs_loop" /\ error # "") \/ pc \notin {"dirs", "recs", "recs_loop"}
PredsConcatTried ==
    \/ pc = "preds_loop" /\ error # ""
    \/ pc \notin {"dirs", "recs", "recs_loop", "preds", "preds_loop"}

\* a table was produced
RecsLoaded == pc \notin {"dirs", "recs", "recs_loop"}
PredsLoaded == pc \notin {"dirs", "recs", "recs_loop", "preds", "preds_loop"}

\* C8 as stated: a table of recommendations (of predictions) is produced only
\* if some directory matched and every matched directory holds a matching
\* file.
C8_NoDirectorySkipped ==
    /\ RecsLoaded => (dirs # <<>> /\ \A d \in Range(dirs) : d.recs # <<>>)
    /\ PredsLoaded => (dirs # <<>> /\ \A d \in Range(dirs) : d.pred # <<>>)

\* C8 as amended: the load of recommendations (of predictions) fails, with
\* the ValueError of the concatenation and without a table, if and only if no
\* matched directory holds a matching file (which is so when no directory
\* matched); otherwise the table holds the rows of every matching file, and a
\* directory without one adds nothing.
C8_FailsIffNoFileAtAll ==
    /\ RecsConcatTried =>
        /\ (pc = "recs_loop" /\ error = "ValueError")
            <=> \A d \in Range(dirs) : d.recs = <<>>
        /\ RecsLoaded =>
            Len(recs) = Len(Concat(Concat([n \in 1..Len(dirs) |-> dirs[n].recs])))
    /\ PredsConcatTried =>
        /\ (pc = "preds_loop" /\ error = "ValueError")
            <=> \A d \in Range(dirs) : d.pred = <<>>
        /\ PredsLoaded =>
            Len(preds) = Len(Concat(Concat([n \in 1..Len(dirs) |-> dirs[n].pred])))

\* both tables were produced although a matched directory held no recs-* file
C8_DirectorySkipped ==
    /\ PredsLoaded
    /\ \E d \in Range(dirs) : d.recs = <<>>

\* C9: every pairwise result in the output of a section's post-hoc cell is
\* computed from the section's own metric column of the results, the first
\* vector that of the algorithm the label names first and the second that of
\* the algorithm it names second.
C9_OwnMetricAndLabel ==
    InPostHoc =>
        \A n \in 1..Len(out.lines) :
            /\ out.lines[n].Statistics.x
                = GroupColumn(results, out.lines[n].Pair[1], out.metric)
            /\ out.lines[n].Statistics.y
                = GroupColumn(results, out.lines[n].Pair[2], out.metric)
            /\ out.lines[n].Pair[1] # out.lines[n].Pair[2]

\* the post-hoc cell of a later section than the first has printed a result
C9_LaterSection ==
    /\ InPostHoc
    /\ out.metric = "recip_rank"
    /\ Len(out.lines) = Len(n_compare)

\* the segment of a directory name that follows the prefix <dataset>-
SegmentAfterPrefix(name, ds) ==
    Split(SubSeq(name, Len(ds) + 2, Len(name)), "-")[1]

\* C10: every row read in a loading loop is tagged with the chosen dataset
\* identifier and with the segment of its directory's name that follows the
\* prefix <dataset>-.
C10_TaggedWithDatasetAndAlgorithm ==
    /\ pc = "recs_loop" =>
        \A r \in Range(rec) :
            /\ r.dataset = dataset
            /\ r.algorithm = SegmentAfterPrefix(fld, dataset)
    /\ pc = "preds_loop" =>
        \A r \in Range(pred) :
            /\ r.dataset = dataset
            /\ r.algorithm = SegmentAfterPrefix(fld, dataset)

====
